---- MODULE Spec2Model ----
(***************************************************************************)
(* vdmfd.py: the criteria evaluation (check_criteria,                      *)
(* satisfies_conditions, the unit parsers) and the concurrent scan of      *)
(* main() over a ThreadPoolExecutor.                                       *)
(*                                                                         *)
(* Python strings are tuples of one-character strings, so that split,      *)
(* lower, splitext and the substring test are computed and not assumed.    *)
(* Python floats are integers: the tokens and the metadata of the model    *)
(* hold whole numbers only.  A call that may raise returns a record whose  *)
(* field exc is "none" or the name of the exception.                       *)
(***************************************************************************)
EXTENDS Integers, Sequences, FiniteSets, TLC

\* ------------------------------------------------------------------------
\* Bounds of the model.

\* Largest number of files the walked directory tree holds.
MaxFiles == 2

\* Largest -threads=N value tried (the smallest is -1).
MaxThreads == 2

\* Longest criteria list handed to satisfies_conditions.
MaxCrits == 3

\* ------------------------------------------------------------------------
\* str methods and os.path functions used by the source.

Digits == <<"0", "1", "2", "3", "4", "5", "6", "7", "8", "9">>

UpperAlpha ==
  <<"A", "B", "C", "D", "E", "F", "G", "H", "I", "J", "K", "L", "M",
    "N", "O", "P", "Q", "R", "S", "T", "U", "V", "W", "X", "Y", "Z">>

LowerAlpha ==
  <<"a", "b", "c", "d", "e", "f", "g", "h", "i", "j", "k", "l", "m",
    "n", "o", "p", "q", "r", "s", "t", "u", "v", "w", "x", "y", "z">>

LowerChar(c) ==
  IF \E i \in 1..26 : UpperAlpha[i] = c
  THEN LowerAlpha[CHOOSE i \in 1..26 : UpperAlpha[i] = c]
  ELSE c

\* str.lower()
Lower(s) == [i \in 1..Len(s) |-> LowerChar(s[i])]

\* s.find(c) from position `from`; 0 when c does not occur.
RECURSIVE FindFrom(_, _, _)
FindFrom(s, c, from) ==
  IF from > Len(s) THEN 0
  ELSE IF s[from] = c THEN from
  ELSE FindFrom(s, c, from + 1)

\* s.rfind(c): the last position of c in s; 0 when c does not occur.
RFind(s, c) ==
  IF \E i \in 1..Len(s) : s[i] = c
  THEN CHOOSE i \in 1..Len(s) : s[i] = c /\ \A j \in (i + 1)..Len(s) : s[j] # c
  ELSE 0

\* s.split(c): the parts of s between the occurrences of c.
RECURSIVE Split(_, _)
Split(s, c) ==
  LET k == FindFrom(s, c, 1)
  IN  IF k = 0 THEN <<s>>
      ELSE <<SubSeq(s, 1, k - 1)>> \o Split(SubSeq(s, k + 1, Len(s)), c)

\* `sub in s`
Contains(s, sub) ==
  \E i \in 0..(Len(s) - Len(sub)) : SubSeq(s, i + 1, i + Len(sub)) = sub

\* os.path.dirname(p): everything before the last "/".
\* (The model's paths have no run of slashes and no leading slash.)
Dirname(p) ==
  LET k == RFind(p, "/") IN IF k = 0 THEN <<>> ELSE SubSeq(p, 1, k - 1)

\* os.path.basename(p): everything after the last "/".
Basename(p) == SubSeq(p, RFind(p, "/") + 1, Len(p))

\* os.path.splitext(p)[1]: the extension starts at the last dot of the base
\* name, unless that dot is preceded by dots only (".bashrc" has none).
SplitExt(p) ==
  LET sepIndex == RFind(p, "/")
      dotIndex == RFind(p, ".")
  IN  IF dotIndex > sepIndex
         /\ \E i \in (sepIndex + 1)..(dotIndex - 1) : p[i] # "."
      THEN SubSeq(p, dotIndex, Len(p))
      ELSE <<>>

\* float(s) for a string of the model's alphabet (letters, digits, ":", "/"
\* and "."): a non-empty string of digits is its value, anything else raises
\* ValueError.  No token of the model spells inf, nan or an exponent.
IsNumeric(s) ==
  /\ Len(s) > 0
  /\ \A i \in 1..Len(s) : \E d \in 1..10 : Digits[d] = s[i]

DigitValue(c) == (CHOOSE d \in 1..10 : Digits[d] = c) - 1

RECURSIVE ToNumber(_)
ToNumber(s) ==
  IF Len(s) = 0 THEN 0
  ELSE 10 * ToNumber(SubSeq(s, 1, Len(s) - 1)) + DigitValue(s[Len(s)])

Abs(x) == IF x < 0 THEN -x ELSE x

Max(a, b) == IF a >= b THEN a ELSE b

\* A tolerance of one percent of the second number alone, the target.
IsCloseRat_of_target(a, ad, b, bd) ==
  Abs(a * bd - b * ad) <= Abs(b * ad) \div 100

\* math.isclose(a / ad, b / bd, rel_tol=0.01) for positive denominators:
\* |x - y| <= 0.01 * max(|x|, |y|), multiplied by the denominators; for whole
\* numbers d and m, d <= m / 100 exactly when d <= m \div 100.
IsCloseRat(a, ad, b, bd) ==
  Abs(a * bd - b * ad) <= Max(Abs(a * bd), Abs(b * ad)) \div 100

\* The five comparisons every numeric criterion ends in, on the fractions
\* a / ad and b / bd; an operator outside the five falls through to the
\* function's final `return False`.
Compare(comp_op, a, ad, b, bd) ==
  CASE comp_op = "eq" -> IsCloseRat(a, ad, b, bd)
    [] comp_op = "gt" -> a * bd > b * ad
    [] comp_op = "gte" -> a * bd >= b * ad
    [] comp_op = "lt" -> a * bd < b * ad
    [] comp_op = "lte" -> a * bd <= b * ad
    [] OTHER -> FALSE

\* A call's outcome: a returned value or a raised exception.
Return(v) == [exc |-> "none", ret |-> v]

Raise(e) == [exc |-> e, ret |-> FALSE]

\* ------------------------------------------------------------------------
\* Module-level tables.

\* SIZE_UNITS: the multiplier of each size unit (binary multiples).
SIZE_UNITS ==
  [u \in {<<"b">>, <<"k", "b">>, <<"m", "b">>, <<"g", "b">>} |->
     CASE u = <<"b">> -> 1
       [] u = <<"k", "b">> -> 1024
       [] u = <<"m", "b">> -> 1024 * 1024
       [] u = <<"g", "b">> -> 1024 * 1024 * 1024]

\* VIDEO_EXT: the recognized video extensions.
VIDEO_EXT ==
  { <<".", "a", "v", "i">>, <<".", "d", "i", "v", "x">>, <<".", "f", "l", "v">>,
    <<".", "m", "k", "v">>, <<".", "m", "o", "v">>, <<".", "m", "p", "4">>,
    <<".", "m", "4", "v">>, <<".", "m", "p", "e", "g">>, <<".", "m", "p", "g">>,
    <<".", "w", "e", "b", "m">>, <<".", "w", "m", "v">>, <<".", "3", "g", "p">> }

\* ------------------------------------------------------------------------
\* Unit parsers.

\* parse_size_arg(arg): (value, unit) of "<number>:<unit>"; every failure of
\* the body (the unpacking of the split, float(), the unit test) is re-raised
\* as ValueError.
parse_size_arg(arg) ==
  LET parts == Split(arg, ":")
  IN  IF Len(parts) # 2 THEN Raise("ValueError")
      ELSE IF ~IsNumeric(parts[1]) THEN Raise("ValueError")
      ELSE IF Lower(parts[2]) \notin DOMAIN SIZE_UNITS THEN Raise("ValueError")
      ELSE Return([value |-> ToNumber(parts[1]), unit |-> Lower(parts[2])])

\* parse_duration_arg(arg): the seconds of "<number>:<unit>".
parse_duration_arg(arg) ==
  LET parts == Split(arg, ":")
      unit == Lower(parts[2])
  IN  IF Len(parts) # 2 THEN Raise("ValueError")
      ELSE IF ~IsNumeric(parts[1]) THEN Raise("ValueError")
      ELSE IF unit \in {<<"s", "e", "c">>, <<"s">>,
                        <<"s", "e", "c", "o", "n", "d", "s">>}
           THEN Return(ToNumber(parts[1]) * 1)
      ELSE IF unit \in {<<"m", "i", "n">>, <<"m">>,
                        <<"m", "i", "n", "u", "t", "e", "s">>}
           THEN Return(ToNumber(parts[1]) * 60)
      ELSE IF unit \in {<<"h", "r">>, <<"h">>, <<"h", "o", "u", "r", "s">>}
           THEN Return(ToNumber(parts[1]) * 3600)
      ELSE Raise("ValueError")

\* ------------------------------------------------------------------------
\* Criterion evaluator.

\* dict.get(k, default)
DictGet(d, k, default) == IF k \in DOMAIN d THEN d[k] ELSE default

\* VideoStream without the break: the loop runs on and keeps the last video
\* stream.
VideoStream_last(metadata) ==
  LET streams == DictGet(metadata, "streams", <<>>)
      isVideo(i) == DictGet(streams[i], "codec_type", "") = "video"
  IN  IF \E i \in 1..Len(streams) : isVideo(i)
      THEN <<streams[CHOOSE i \in 1..Len(streams) :
                       isVideo(i) /\ \A j \in (i + 1)..Len(streams) : ~isVideo(j)]>>
      ELSE <<>>

\* The first stream of metadata["streams"] whose codec_type is "video", as a
\* one-element sequence; the empty sequence stands for None.
VideoStream(metadata) ==
  LET streams == DictGet(metadata, "streams", <<>>)
      isVideo(i) == DictGet(streams[i], "codec_type", "") = "video"
  IN  IF \E i \in 1..Len(streams) : isVideo(i)
      THEN <<streams[CHOOSE i \in 1..Len(streams) :
                       isVideo(i) /\ \A j \in 1..(i - 1) : ~isVideo(j)]>>
      ELSE <<>>

\* The frame rate of r_frame_rate as a fraction <<num, den>>: "num/den", 0 when
\* den is 0; a string that is not "num/den" is tried as a bare number, and is
\* 0 when that fails too.
FrameRate(fr_str) ==
  LET parts == Split(fr_str, "/")
  IN  IF Len(parts) = 2 /\ IsNumeric(parts[1]) /\ IsNumeric(parts[2])
      THEN IF ToNumber(parts[2]) # 0
           THEN <<ToNumber(parts[1]), ToNumber(parts[2])>>
           ELSE <<0, 1>>
      ELSE IF IsNumeric(fr_str) THEN <<ToNumber(fr_str), 1>>
      ELSE <<0, 1>>

check_criteria(metadata, filepath, crit_type, comp_op, crit_value) ==
  LET fmt == DictGet(metadata, "format", <<>>)
      duration == DictGet(fmt, "duration", 0)
      size == DictGet(fmt, "size", 0)
      bitrate == IF DictGet(fmt, "bit_rate", 0) # 0 THEN fmt["bit_rate"] ELSE 0
      vs == VideoStream(metadata)
      video_stream == vs[1]
      head == Split(crit_value, ":")[1]
  IN  CASE crit_type = "path" ->
             Return(Contains(Lower(Dirname(filepath)), Lower(crit_value)))
        [] crit_type = "filename" ->
             Return(Contains(Lower(Basename(filepath)), Lower(crit_value)))
        [] crit_type = "container" ->
             LET ext == SplitExt(filepath)
             IN  Return(Lower(crit_value) = Lower(SubSeq(ext, 2, Len(ext))))
        [] crit_type = "duration" ->
             LET target == parse_duration_arg(crit_value)
             IN  IF target.exc # "none" THEN Raise(target.exc)
                 ELSE Return(Compare(comp_op, duration, 1, target.ret, 1))
        [] crit_type = "size" ->
             LET parsed == parse_size_arg(crit_value)
             IN  IF parsed.exc # "none" THEN Raise(parsed.exc)
                 ELSE Return(Compare(comp_op, size, 1,
                        parsed.ret.value * SIZE_UNITS[parsed.ret.unit], 1))
        [] crit_type = "bitrate" ->
             LET parsed == parse_size_arg(crit_value)
                 value == parsed.ret.value
                 unit == parsed.ret.unit
                 target_kbps ==
                   CASE unit = <<"k", "b">> -> value
                     [] unit = <<"m", "b">> -> value * 1000
                     [] unit = <<"g", "b">> -> value * 1000000
                     [] OTHER -> value
             IN  IF parsed.exc # "none" THEN Return(FALSE)
                 ELSE Return(Compare(comp_op, bitrate, 1, target_kbps, 1))
        [] crit_type = "codec_name" ->
             IF vs = <<>> THEN Return(FALSE)
             ELSE IF "codec_name" \notin DOMAIN video_stream THEN Return(FALSE)
             ELSE Return(Lower(crit_value) = Lower(video_stream["codec_name"]))
        [] crit_type = "codec_tag" ->
             IF vs = <<>> THEN Return(FALSE)
             ELSE IF "codec_tag_string" \notin DOMAIN video_stream
                  THEN Return(FALSE)
             ELSE Return(Lower(crit_value)
                         = Lower(video_stream["codec_tag_string"]))
        [] crit_type = "aspect" ->
             IF vs = <<>> THEN Return(FALSE)
             ELSE IF "display_aspect_ratio" \notin DOMAIN video_stream
                  THEN Return(FALSE)
             ELSE Return(crit_value = video_stream["display_aspect_ratio"])
        [] crit_type \in {"width", "height"} ->
             IF vs = <<>> THEN Return(FALSE)
             ELSE IF ~IsNumeric(head) THEN Return(FALSE)
             ELSE IF crit_type \notin DOMAIN video_stream THEN Return(FALSE)
             ELSE Return(Compare(comp_op, video_stream[crit_type], 1,
                                 ToNumber(head), 1))
        [] crit_type = "orientation" ->
             IF vs = <<>> THEN Return(FALSE)
             ELSE IF "width" \notin DOMAIN video_stream
                     \/ "height" \notin DOMAIN video_stream
                  THEN Return(FALSE)
             ELSE LET w == video_stream["width"]
                      h == video_stream["height"]
                      orientation == Lower(crit_value)
                  IN  IF orientation \in {<<"l", "a", "n", "d", "s", "c", "a", "p", "e">>,
                                          <<"l">>}
                      THEN Return(w > h)
                      ELSE IF orientation \in {<<"p", "o", "r", "t", "r", "a", "i", "t">>,
                                               <<"p">>}
                      THEN Return(w < h)
                      ELSE IF orientation \in {<<"s", "q", "u", "a", "r", "e">>,
                                               <<"s", "q">>}
                      THEN Return(w = h)
                      ELSE Return(FALSE)
        [] crit_type = "pix_fmt" ->
             IF vs = <<>> THEN Return(FALSE)
             ELSE IF "pix_fmt" \notin DOMAIN video_stream THEN Return(FALSE)
             ELSE Return(Lower(crit_value) = Lower(video_stream["pix_fmt"]))
        [] crit_type = "framerate" ->
             IF vs = <<>> THEN Return(FALSE)
             ELSE LET fr == FrameRate(DictGet(video_stream, "r_frame_rate",
                                              <<"0", "/", "1">>))
                  IN  IF ~IsNumeric(head) THEN Return(FALSE)
                      ELSE Return(Compare(comp_op, fr[1], fr[2],
                                          ToNumber(head), 1))
        [] OTHER -> Return(FALSE)

\* ------------------------------------------------------------------------
\* Expression evaluator.

\* The loop of satisfies_conditions over criteria_list[i..], with `result`
\* the value accumulated so far.  A criterion is the tuple
\* <<crit, comp_operator, value, logical_operator>>; a logical_operator of
\* "None" means AND.  check_criteria is called before the and/or is applied,
\* so an exception of any criterion propagates.
RECURSIVE FoldFrom(_, _, _, _, _)
FoldFrom(metadata, filepath, criteria_list, i, result) ==
  IF i > Len(criteria_list) THEN Return(result)
  ELSE LET c == criteria_list[i]
           current == check_criteria(metadata, filepath, c[1], c[2], c[3])
           op_to_use == IF c[4] # "None" THEN c[4] ELSE "AND"
       IN  IF current.exc # "none" THEN Raise(current.exc)
           ELSE FoldFrom(metadata, filepath, criteria_list, i + 1,
                         CASE op_to_use = "AND" -> result /\ current.ret
                           [] op_to_use = "OR" -> result \/ current.ret
                           [] OTHER -> result)

\* satisfies_conditions with AND binding tighter than OR: the list is cut at
\* every OR, and the result is true when all criteria of one piece are true.
satisfies_conditions_precedence(metadata, filepath, criteria_list) ==
  LET n == Len(criteria_list)
      r(i) == check_criteria(metadata, filepath, criteria_list[i][1],
                             criteria_list[i][2], criteria_list[i][3])
      starts(i) == i = 1 \/ criteria_list[i][4] = "OR"
      piece(i) == {j \in i..n : \A k \in (i + 1)..j : ~starts(k)}
  IN  IF \E i \in 1..n : r(i).exc # "none" THEN Raise("ValueError")
      ELSE Return(n = 0 \/ \E i \in 1..n : starts(i) /\ \A j \in piece(i) : r(j).ret)

satisfies_conditions(metadata, filepath, criteria_list) ==
  IF criteria_list = <<>> THEN Return(TRUE)
  ELSE LET c == criteria_list[1]
           first == check_criteria(metadata, filepath, c[1], c[2], c[3])
       IN  IF first.exc # "none" THEN Raise(first.exc)
           ELSE FoldFrom(metadata, filepath, criteria_list, 2, first.ret)

\* ------------------------------------------------------------------------
\* The per-file task.

\* is_video with the partial-video extension ".ts" of VIDEO_PARTS_EXT
\* accepted too.
is_video_with_parts(filepath) ==
  Lower(SplitExt(filepath)) \in VIDEO_EXT \cup {<<".", "t", "s">>}

\* is_video(filepath): the lower-cased extension is in VIDEO_EXT.
is_video(filepath) == Lower(SplitExt(filepath)) \in VIDEO_EXT

\* `not meta.get(key)`: the key is absent or its value is empty.
Falsy(meta, key) == key \notin DOMAIN meta \/ meta[key] = <<>>

\* get_video_metadata(filepath), given what running ffprobe on the file did:
\* probe.kind is "os_error" (check_output raised something other than
\* CalledProcessError), "nonzero_exit" (CalledProcessError), "empty" (no
\* output), "bad_json" (JSONDecodeError) or "json", with probe.meta the parsed
\* output.  Returns <<meta>>, or <<>> for None; only the two exceptions named
\* in the except clauses are caught.
get_video_metadata(probe) ==
  CASE probe.kind = "os_error" -> Raise("OSError")
    [] probe.kind = "nonzero_exit" -> Return(<<>>)
    [] probe.kind = "empty" -> Return(<<>>)
    [] probe.kind = "bad_json" -> Return(<<>>)
    [] OTHER ->
         IF "format" \notin DOMAIN probe.meta /\ "streams" \notin DOMAIN probe.meta
         THEN Return(<<>>)
         ELSE IF Falsy(probe.meta, "format") THEN Return(<<>>)
         ELSE IF Falsy(probe.meta, "streams") THEN Return(<<>>)
         ELSE Return(<<probe.meta>>)

\* get_and_check_file(filepath, criteria_list), with `fetched` the outcome of
\* its get_video_metadata call (read only when the file is a video).  Returns
\* <<>> for None.  The body ends after the metadata-is-None branch: with usable
\* metadata the function falls off its end and returns None as well.
get_and_check_file(filepath, criteria_list, fetched) ==
  IF ~is_video(filepath) THEN Return(<<>>)
  ELSE IF fetched.exc # "none" THEN Raise(fetched.exc)
  ELSE IF fetched.ret = <<>> THEN Return(<<>>)
  ELSE Return(<<>>)

\* `if result:` for a returned path or None.
Truthy(result) == result # <<>> /\ result[1] # <<>>

\* ------------------------------------------------------------------------
\* Inputs of the model.

Movie ==
  [format |-> [duration |-> 120, size |-> 209715200, bit_rate |-> 2000],
   streams |-> <<[codec_type |-> "audio"],
                 [codec_type |-> "video", width |-> 1920, height |-> 1080,
                  r_frame_rate |-> <<"3", "0", "/", "1">>]>>]

Clip ==
  [format |-> [duration |-> 30, size |-> 52428800],
   streams |-> <<[codec_type |-> "video", width |-> 720, height |-> 1280,
                  r_frame_rate |-> <<"2", "5">>]>>]

AudioOnly ==
  [format |-> [duration |-> 61, size |-> 203],
   streams |-> <<[codec_type |-> "audio"]>>]

\* A file with two video streams that differ in every attribute.
TwoVideos ==
  [format |-> [duration |-> 100, size |-> 10101, bit_rate |-> 1000],
   streams |-> <<[codec_type |-> "audio", codec_name |-> <<"a", "a", "c">>],
                 [codec_type |-> "video", codec_name |-> <<"h", "2", "6", "4">>,
                  codec_tag_string |-> <<"a", "v", "c", "1">>,
                  display_aspect_ratio |-> <<"1", "6", ":", "9">>,
                  width |-> 1920, height |-> 1080,
                  pix_fmt |-> <<"y", "u", "v", "4", "2", "0", "p">>,
                  r_frame_rate |-> <<"3", "0", "0", "0", "0", "/", "1", "0", "0", "1">>],
                 [codec_type |-> "video", codec_name |-> <<"m", "j", "p", "e", "g">>,
                  codec_tag_string |-> <<"m", "j", "p", "g">>,
                  display_aspect_ratio |-> <<"3", ":", "4">>,
                  width |-> 480, height |-> 640,
                  pix_fmt |-> <<"g", "r", "a", "y">>,
                  r_frame_rate |-> <<"5", "/", "1">>]>>]

NoStreams == [format |-> [duration |-> 30, size |-> 52428800], streams |-> <<>>]

NoFormat == [streams |-> <<[codec_type |-> "video"]>>]

\* What ffprobe may do on a file.
Probes ==
  { [kind |-> k, meta |-> NoFormat] :
      k \in {"os_error", "nonzero_exit", "empty", "bad_json"} }
  \cup { [kind |-> "json", meta |-> m] : m \in {Movie, Clip, NoStreams, NoFormat} }

\* The files a walked tree may hold: "v/a.mp4", "b.MKV", "c.txt" and "d.ts"
\* (an extension of VIDEO_PARTS_EXT, which no code reads).
AllPaths ==
  { <<"v", "/", "a", ".", "m", "p", "4">>,
    <<"b", ".", "M", "K", "V">>,
    <<"c", ".", "t", "x", "t">>,
    <<"d", ".", "t", "s">> }

\* Criteria lists of a scan: none, [size gte 100:mb],
\* [duration gte 60:sec, OR filename clip].
ScanCriteria ==
  { <<>>,
    << <<"size", "gte", <<"1", "0", "0", ":", "m", "b">>, "None">> >>,
    << <<"duration", "gte", <<"6", "0", ":", "s", "e", "c">>, "None">>,
       <<"filename", "eq", <<"a">>, "OR">> >> }

\* ------------------------------------------------------------------------
\* State.

VARIABLES
  pc,             \* where main() is
  search_is_dir,  \* os.path.isdir(search_path)
  tree,           \* the files under search_path
  threads,        \* the -threads=N value
  criteria_list,  \* the criteria parse_args built
  toWalk,         \* files os.walk has not yielded yet
  jobs,           \* main's list of submitted futures, by file
  workQueue,      \* the executor's queue of tasks no worker has taken
  tstate,         \* per file: "unsubmitted", "queued", "fetching", "finished"
  future,         \* per file: the outcome its future holds once finished
  fetchCount,     \* per file: calls of get_video_metadata
  fetched,        \* per file: what get_video_metadata returned or raised
  yielded,        \* futures as_completed has yielded
  consumed,       \* per file: turns of the drain loop taken for its future
  results,        \* main's results list
  match_count,    \* main's match counter
  failedPrinted,  \* "[ThreadPoolExecutor]: Failed:" lines printed
  report,         \* the "Returned:" / "Failed:" lines, once printed
  call            \* the last direct call of an evaluator function

vars ==
  <<pc, search_is_dir, tree, threads, criteria_list, toWalk, jobs, workQueue, tstate,
    future, fetchCount, fetched, yielded, consumed, results, match_count, failedPrinted,
    report, call>>

scanVars ==
  <<pc, search_is_dir, tree, threads, criteria_list, toWalk, jobs, workQueue, tstate,
    future, fetchCount, fetched, yielded, consumed, results, match_count, failedPrinted,
    report>>

NoCall ==
  [fn |-> "none", metadata |-> NoFormat, filepath |-> <<>>,
   criteria_list |-> <<>>, out |-> Return(FALSE)]

NotFetched == [exc |-> "not fetched", ret |-> <<>>]

NoReport == [printed |-> FALSE, returned |-> 0, failed |-> <<>>]

\* main() after parse_args: the directory tree, the thread count, the
\* criteria and whether the search path is a directory are the run's inputs.
Init ==
  /\ pc = "start"
  /\ search_is_dir \in BOOLEAN
  /\ threads \in -1..MaxThreads
  /\ criteria_list \in ScanCriteria
  /\ tree \in {t \in SUBSET AllPaths : Cardinality(t) <= MaxFiles}
  /\ toWalk = tree
  /\ jobs = <<>>
  /\ workQueue = <<>>
  /\ tstate = [f \in AllPaths |-> "unsubmitted"]
  /\ future = [f \in AllPaths |-> Return(<<>>)]
  /\ fetchCount = [f \in AllPaths |-> 0]
  /\ fetched = [f \in AllPaths |-> NotFetched]
  /\ yielded = {}
  /\ consumed = [f \in AllPaths |-> 0]
  /\ results = <<>>
  /\ match_count = 0
  /\ failedPrinted = 0
  /\ report = NoReport
  /\ call = NoCall

\* ------------------------------------------------------------------------
\* main().

\* `if not os.path.isdir(search_path): ... sys.exit(1)`
CheckDir ==
  /\ pc = "start"
  /\ pc' = IF search_is_dir THEN "pool" ELSE "exit_not_dir"
  /\ UNCHANGED <<search_is_dir, tree, threads, criteria_list, toWalk, jobs, workQueue,
                 tstate, future, fetchCount, fetched, yielded, consumed, results,
                 match_count, failedPrinted, report, call>>

\* A pool that takes any max_workers.
CreatePool_unchecked ==
  /\ pc = "pool"
  /\ pc' = "scan"
  /\ UNCHANGED <<search_is_dir, tree, threads, criteria_list, toWalk, jobs, workQueue,
                 tstate, future, fetchCount, fetched, yielded, consumed, results,
                 match_count, failedPrinted, report, call>>

\* `with ThreadPoolExecutor(max_workers=threads) as executor:` the constructor
\* raises ValueError for max_workers <= 0, which nothing in main catches.
CreatePool ==
  /\ pc = "pool"
  /\ pc' = IF threads <= 0 THEN "uncaught_ValueError" ELSE "scan"
  /\ UNCHANGED <<search_is_dir, tree, threads, criteria_list, toWalk, jobs, workQueue,
                 tstate, future, fetchCount, fetched, yielded, consumed, results,
                 match_count, failedPrinted, report, call>>

\* A walk that submits video files only and passes over every other file.
Submit_videos_only(f) ==
  /\ pc = "scan"
  /\ f \in toWalk
  /\ toWalk' = toWalk \ {f}
  /\ IF is_video(f)
     THEN /\ jobs' = Append(jobs, f)
          /\ workQueue' = Append(workQueue, f)
          /\ tstate' = [tstate EXCEPT ![f] = "queued"]
     ELSE UNCHANGED <<jobs, workQueue, tstate>>
  /\ UNCHANGED <<pc, search_is_dir, tree, threads, criteria_list, future, fetchCount,
                 fetched, yielded, consumed, results, match_count, failedPrinted, report,
                 call>>

\* One turn of the os.walk loops: the next file, whatever its extension, is
\* submitted to the executor and its future appended to jobs.
Submit(f) ==
  /\ pc = "scan"
  /\ f \in toWalk
  /\ toWalk' = toWalk \ {f}
  /\ jobs' = Append(jobs, f)
  /\ workQueue' = Append(workQueue, f)
  /\ tstate' = [tstate EXCEPT ![f] = "queued"]
  /\ UNCHANGED <<pc, search_is_dir, tree, threads, criteria_list, future, fetchCount,
                 fetched, yielded, consumed, results, match_count, failedPrinted, report,
                 call>>

\* Files whose task is inside get_video_metadata.
Fetching == {f \in AllPaths : tstate[f] = "fetching"}

\* A pool that starts a thread for every task.
WorkerFree_unbounded == TRUE

\* A pool of max_workers threads has a free worker.
WorkerFree == Cardinality(Fetching) < threads

\* A free worker takes the oldest queued task and runs get_and_check_file up
\* to its get_video_metadata call; for a file that is no video the task
\* returns at once.
StartTask ==
  /\ workQueue # <<>>
  /\ WorkerFree
  /\ LET f == Head(workQueue)
     IN  /\ workQueue' = Tail(workQueue)
         /\ IF is_video(f)
            THEN /\ tstate' = [tstate EXCEPT ![f] = "fetching"]
                 /\ fetchCount' = [fetchCount EXCEPT ![f] = @ + 1]
                 /\ UNCHANGED future
            ELSE /\ tstate' = [tstate EXCEPT ![f] = "finished"]
                 /\ future' = [future EXCEPT
                      ![f] = get_and_check_file(f, criteria_list, fetched[f])]
                 /\ UNCHANGED fetchCount
  /\ UNCHANGED <<pc, search_is_dir, tree, threads, criteria_list, toWalk, jobs, fetched,
                 yielded, consumed, results, match_count, failedPrinted, report, call>>

\* A task that is queued again when its fetch returned None.
FinishTask_retry(f) ==
  /\ tstate[f] = "fetching"
  /\ \E probe \in Probes :
       LET got == get_video_metadata(probe)
       IN  /\ fetched' = [fetched EXCEPT ![f] = got]
           /\ IF got.exc = "none" /\ got.ret = <<>>
              THEN /\ tstate' = [tstate EXCEPT ![f] = "queued"]
                   /\ workQueue' = Append(workQueue, f)
                   /\ UNCHANGED future
              ELSE /\ tstate' = [tstate EXCEPT ![f] = "finished"]
                   /\ future' = [future EXCEPT
                        ![f] = get_and_check_file(f, criteria_list, got)]
                   /\ UNCHANGED workQueue
  /\ UNCHANGED <<pc, search_is_dir, tree, threads, criteria_list, toWalk, jobs,
                 fetchCount, yielded, consumed, results, match_count,
                 failedPrinted, report, call>>

\* A task that counts and appends its own file when it finishes, instead of
\* leaving that to the loop over as_completed.
FinishTask_publishes(f) ==
  /\ tstate[f] = "fetching"
  /\ \E probe \in Probes :
       LET got == get_video_metadata(probe)
       IN  /\ fetched' = [fetched EXCEPT ![f] = got]
           /\ future' = [future EXCEPT
                ![f] = get_and_check_file(f, criteria_list, got)]
  /\ tstate' = [tstate EXCEPT ![f] = "finished"]
  /\ match_count' = match_count + 1
  /\ results' = Append(results, f)
  /\ UNCHANGED <<pc, search_is_dir, tree, threads, criteria_list, toWalk, jobs,
                 workQueue, fetchCount, yielded, consumed, failedPrinted,
                 report, call>>

\* get_video_metadata returns or raises, and the rest of get_and_check_file
\* runs: the future is finished with the task's return value or exception.
FinishTask(f) ==
  /\ tstate[f] = "fetching"
  /\ \E probe \in Probes :
       LET got == get_video_metadata(probe)
       IN  /\ fetched' = [fetched EXCEPT ![f] = got]
           /\ future' = [future EXCEPT
                ![f] = get_and_check_file(f, criteria_list, got)]
  /\ tstate' = [tstate EXCEPT ![f] = "finished"]
  /\ UNCHANGED <<pc, search_is_dir, tree, threads, criteria_list, toWalk, jobs,
                 workQueue, fetchCount, yielded, consumed, results, match_count,
                 failedPrinted, report, call>>

\* An as_completed that yields only the futures that hold a result.
Completed_results_only(f) ==
  tstate[f] = "finished" /\ f \notin yielded /\ future[f].exc = "none"

\* as_completed(jobs) can yield the future of f.
Completed(f) == tstate[f] = "finished" /\ f \notin yielded

\* One turn of `for job in as_completed(jobs)`: job.result() returns or
\* re-raises; a truthy result is counted and appended, an exception is
\* printed as a Failed line.
Drain(f) ==
  /\ pc = "scan"
  /\ toWalk = {}
  /\ Completed(f)
  /\ yielded' = yielded \cup {f}
  /\ consumed' = [consumed EXCEPT ![f] = @ + 1]
  /\ IF future[f].exc # "none"
     THEN /\ failedPrinted' = failedPrinted + 1
          /\ UNCHANGED <<results, match_count>>
     ELSE IF Truthy(future[f].ret)
     THEN /\ match_count' = match_count + 1
          /\ results' = Append(results, future[f].ret[1])
          /\ UNCHANGED failedPrinted
     ELSE UNCHANGED <<results, match_count, failedPrinted>>
  /\ UNCHANGED <<pc, search_is_dir, tree, threads, criteria_list, toWalk, jobs,
                 workQueue, tstate, future, fetchCount, fetched, report, call>>

\* as_completed is exhausted and the with block is left.
ExitPool ==
  /\ pc = "scan"
  /\ toWalk = {}
  /\ \A i \in 1..Len(jobs) : jobs[i] \in yielded
  /\ pc' = "report"
  /\ UNCHANGED <<search_is_dir, tree, threads, criteria_list, toWalk, jobs, workQueue,
                 tstate, future, fetchCount, fetched, yielded, consumed, results,
                 match_count, failedPrinted, report, call>>

\* The "Returned: {match_count}" and "Failed: []" lines, then exit status 1
\* when nothing matched.
Report ==
  /\ pc = "report"
  /\ report' = [printed |-> TRUE, returned |-> match_count, failed |-> <<>>]
  /\ pc' = IF match_count = 0 THEN "exit_no_match" ELSE "done"
  /\ UNCHANGED <<search_is_dir, tree, threads, criteria_list, toWalk, jobs, workQueue,
                 tstate, future, fetchCount, fetched, yielded, consumed, results,
                 match_count, failedPrinted, call>>

Next ==
  \/ CheckDir
  \/ CreatePool
  \/ \E f \in AllPaths : Submit(f)
  \/ StartTask
  \/ \E f \in AllPaths : FinishTask(f)
  \/ \E f \in AllPaths : Drain(f)
  \/ ExitPool
  \/ Report

Spec == Init /\ [][Next]_vars

\* The scan under the scheduling the interpreter gives: a thread that can
\* take a step is not held back for ever, so main runs when it can, a free
\* worker takes the next task and every metadata fetch ends.  Every step of
\* the scan is a step of Next, and weak fairness of Next asks no more than
\* weak fairness of each thread's steps.
FairSpec == Spec /\ WF_vars(Next)

\* ------------------------------------------------------------------------
\* The evaluator functions called directly, once per behaviour, on inputs of
\* bounded sets.

EvalMetas == {Movie, Clip, AudioOnly, TwoVideos}

EvalPaths == {<<"v", "/", "a", ".", "m", "p", "4">>, <<"b", ".", "M", "K", "V">>}

\* Criteria <<crit, comp_operator, value>> for check_criteria: well-formed and
\* malformed values of every numeric kind, and the other kinds.
EvalCriteria ==
  { <<"size", "gte", <<"1", "0", "0", ":", "m", "b">>>>,
    <<"size", "eq", <<"1", "0", "0", "m", "b">>>>,
    <<"size", "gt", <<"a", "b", "c", ":", "m", "b">>>>,
    <<"size", "lt", <<"1", "0", "0", ":", "x", "x">>>>,
    <<"size", "eq", <<"2", "0", "0", ":", "B">>>>,
    <<"size", "lte", <<"1", ":", "2", ":", "b">>>>,
    <<"duration", "gte", <<"6", "0", ":", "s", "e", "c">>>>,
    <<"duration", "eq", <<"6", "0">>>>,
    <<"duration", "lt", <<"x", ":", "m", "i", "n">>>>,
    <<"duration", "eq", <<"2", ":", "M", "I", "N">>>>,
    <<"duration", "gt", <<"1", ":", "d", "a", "y">>>>,
    <<"bitrate", "gte", <<"1", ":", "m", "b">>>>,
    <<"bitrate", "eq", <<"f", "a", "s", "t">>>>,
    <<"bitrate", "lt", <<"5", ":", "z", "z">>>>,
    <<"width", "gte", <<"1", "2", "8", "0">>>>,
    <<"width", "eq", <<"w", "i", "d", "e">>>>,
    <<"height", "lt", <<"x", ":", "1">>>>,
    <<"height", "eq", <<"1", "0", "8", "0", ":", "p">>>>,
    <<"framerate", "eq", <<"3", "0">>>>,
    <<"framerate", "gt", <<"f", "a", "s", "t">>>>,
    <<"filename", "eq", <<"A", ".", "M", "P">>>>,
    <<"path", "eq", <<"v">>>>,
    <<"container", "eq", <<"M", "K", "V">>>>,
    <<"codec_name", "eq", <<"h", "2", "6", "4">>>>,
    <<"orientation", "eq", <<"L">>>>,
    <<"orientation", "eq", <<"u", "p">>>>,
    <<"subtitle", "eq", <<"e", "n">>>> }

\* The criterion kinds that read the video stream.
StreamKinds ==
  {"codec_name", "codec_tag", "aspect", "width", "height", "orientation",
   "pix_fmt", "framerate"}

\* The comparison operators parse_args stores.
CompOps == {"eq", "gt", "gte", "lt", "lte"}

\* Values for the stream criteria: attributes of the first and of the second
\* stream of TwoVideos in either case, numbers, orientations, and values that
\* are no number.
StreamValues ==
  { <<"h", "2", "6", "4">>,
    <<"M", "J", "P", "E", "G">>,
    <<"A", "V", "C", "1">>,
    <<"m", "j", "p", "g">>,
    <<"1", "6", ":", "9">>,
    <<"3", ":", "4">>,
    <<"Y", "U", "V", "4", "2", "0", "P">>,
    <<"g", "r", "a", "y">>,
    <<"1", "9", "2", "0">>,
    <<"4", "8", "0">>,
    <<"1", "0", "8", "0", ":", "p">>,
    <<"6", "4", "0">>,
    <<"l", "a", "n", "d", "s", "c", "a", "p", "e">>,
    <<"P">>,
    <<"s", "q">>,
    <<"3", "0">>,
    <<"5">>,
    <<"x">>,
    <<>> }

\* Every stream kind with every comparison operator and every stream value.
StreamCriteria ==
  {<<k, op, v>> : k \in StreamKinds, op \in CompOps, v \in StreamValues}

\* Numeric criteria with every comparison operator and well-formed targets
\* at, just inside and just outside one percent of the values of the files.
NumericCriteria ==
  {<<"duration", op, v>> : op \in CompOps,
       v \in {<<"2", ":", "m", "i", "n">>,
             <<"1", "1", "9", ":", "s">>,
             <<"1", "2", "1", ":", "s">>,
             <<"1", "2", "2", ":", "s">>,
             <<"1", "1", "8", ":", "s">>,
             <<"9", "9", ":", "s">>,
             <<"1", "0", "0", ":", "s">>,
             <<"1", "0", "1", ":", "s">>,
             <<"1", "0", "2", ":", "s">>,
             <<"3", "0", ":", "s", "e", "c">>,
             <<"1", ":", "h", "r">>}}
  \cup {<<"size", op, v>> : op \in CompOps,
       v \in {<<"2", "0", "0", ":", "b">>,
             <<"2", "0", "1", ":", "b">>,
             <<"2", "0", "3", ":", "b">>,
             <<"2", "0", "5", ":", "b">>,
             <<"2", "0", "6", ":", "b">>,
             <<"1", "0", "0", "0", "0", ":", "b">>,
             <<"1", "0", "1", "0", "1", ":", "b">>,
             <<"1", "0", "2", "0", "3", ":", "b">>,
             <<"1", "0", "2", "0", "4", ":", "b">>,
             <<"5", "0", ":", "m", "b">>,
             <<"2", "0", "0", ":", "M", "B">>,
             <<"1", ":", "g", "b">>,
             <<"1", "0", ":", "k", "b">>}}
  \cup {<<"bitrate", op, v>> : op \in CompOps,
       v \in {<<"1", "9", "8", "0", ":", "k", "b">>,
             <<"1", "9", "7", "9", ":", "k", "b">>,
             <<"2", ":", "m", "b">>,
             <<"2", "0", "2", "0", ":", "k", "b">>,
             <<"2", "0", "2", "1", ":", "k", "b">>,
             <<"1", ":", "m", "b">>,
             <<"9", "9", "0", ":", "k", "b">>,
             <<"9", "8", "9", ":", "k", "b">>,
             <<"2", "0", "0", "0", ":", "b">>,
             <<"1", ":", "g", "b">>}}
  \cup {<<"width", op, v>> : op \in CompOps,
       v \in {<<"1", "9", "2", "0">>,
             <<"1", "9", "0", "1">>,
             <<"1", "9", "0", "0">>,
             <<"1", "9", "3", "9">>,
             <<"1", "9", "4", "0">>,
             <<"7", "2", "0">>,
             <<"7", "2", "7">>,
             <<"7", "2", "8">>,
             <<"4", "8", "0", ":", "x">>}}
  \cup {<<"height", op, v>> : op \in CompOps,
       v \in {<<"1", "0", "8", "0">>,
             <<"1", "0", "9", "0">>,
             <<"1", "0", "9", "1">>,
             <<"1", "0", "7", "0">>,
             <<"1", "0", "6", "9">>,
             <<"1", "2", "8", "0">>,
             <<"6", "4", "0">>}}
  \cup {<<"framerate", op, v>> : op \in CompOps,
       v \in {<<"3", "0">>,
             <<"2", "5">>,
             <<"2", "9">>,
             <<"3", "1">>,
             <<"2", "4">>,
             <<"5">>,
             <<"0">>}}

\* Criteria of the lists for satisfies_conditions: [size gte 100:mb],
\* [duration lt 60:sec], [filename a] and the malformed [size eq 100mb], each
\* with every logical operator parse_args can store.
FoldCriteria ==
  { <<b[1], b[2], b[3], l>> :
      b \in { <<"size", "gte", <<"1", "0", "0", ":", "m", "b">>>>,
          <<"duration", "lt", <<"6", "0", ":", "s", "e", "c">>>>,
          <<"filename", "eq", <<"a">>>>,
          <<"size", "eq", <<"1", "0", "0", "m", "b">>>> },
      l \in {"None", "AND", "OR"} }

\* The sequences over S of length at most n.
RECURSIVE SeqsUpTo(_, _)
SeqsUpTo(S, n) ==
  IF n = 0 THEN {<<>>}
  ELSE LET shorter == SeqsUpTo(S, n - 1)
       IN  shorter \cup {Append(q, x) : q \in {r \in shorter : Len(r) = n - 1}, x \in S}

EvalInit ==
  /\ Init
  /\ search_is_dir
  /\ threads = 1
  /\ criteria_list = <<>>
  /\ tree = {}

\* check_criteria(metadata, filepath, crit, comp_operator, value)
EvalCheckCriteria ==
  /\ call.fn = "none"
  /\ \E m \in EvalMetas, p \in EvalPaths, c \in EvalCriteria \cup StreamCriteria \cup NumericCriteria :
       call' = [fn |-> "check_criteria", metadata |-> m, filepath |-> p,
                criteria_list |-> << <<c[1], c[2], c[3], "None">> >>,
                out |-> check_criteria(m, p, c[1], c[2], c[3])]
  /\ UNCHANGED scanVars

\* satisfies_conditions(metadata, filepath, criteria_list)
EvalSatisfiesConditions ==
  /\ call.fn = "none"
  /\ \E m \in {Movie, Clip}, p \in EvalPaths, cl \in SeqsUpTo(FoldCriteria, MaxCrits) :
       call' = [fn |-> "satisfies_conditions", metadata |-> m, filepath |-> p,
                criteria_list |-> cl,
                out |-> satisfies_conditions(m, p, cl)]
  /\ UNCHANGED scanVars

EvalNext == EvalCheckCriteria \/ EvalSatisfiesConditions

EvalSpec == EvalInit /\ [][EvalNext]_vars

\* ------------------------------------------------------------------------
\* Properties.

\* f is in main's results list.
InResults(f) == \E i \in 1..Len(results) : results[i] = f

\* The drain loop is over.
Drained == pc \in {"report", "exit_no_match", "done"}

\* Classification of the model's files by extension, written out.
VideoPaths == {<<"v", "/", "a", ".", "m", "p", "4">>, <<"b", ".", "M", "K", "V">>}

NonVideoPaths == {<<"c", ".", "t", "x", "t">>, <<"d", ".", "t", "s">>}

\* The futures that hold an exception.
Raised == {f \in AllPaths : tstate[f] = "finished" /\ future[f].exc # "none"}

\* C1: after the scan a file is in the result set exactly when it has a video
\* extension, its metadata fetch returned usable metadata and the criteria
\* expression is true of that metadata and the path.
C1_MatchedIffCriteriaHold ==
  Drained =>
    \A f \in tree :
      InResults(f) <=>
        /\ f \in VideoPaths
        /\ fetched[f].exc = "none"
        /\ fetched[f].ret # <<>>
        /\ satisfies_conditions(fetched[f].ret[1], f, criteria_list) = Return(TRUE)

\* The result of criterion i of the last call.
CallResult(i) ==
  check_criteria(call.metadata, call.filepath, call.criteria_list[i][1],
                 call.criteria_list[i][2], call.criteria_list[i][3])

\* (((c1 op2 c2) op3 c3) ...) over the first n criteria of the last call, from
\* the outermost operator inwards: only an "OR" stored on criterion n >= 2 is
\* an or, anything else is an and, and the operator of criterion 1 is not read.
RECURSIVE LeftFold(_)
LeftFold(n) ==
  IF n = 0 THEN TRUE
  ELSE IF n = 1 THEN CallResult(1).ret
  ELSE IF call.criteria_list[n][4] = "OR"
       THEN LeftFold(n - 1) \/ CallResult(n).ret
       ELSE LeftFold(n - 1) /\ CallResult(n).ret

\* C2: satisfies_conditions returns the strict left-to-right fold of the
\* per-criterion results, a missing operator meaning AND, the first
\* criterion's operator ignored, and true for the empty list.
C2_LeftToRightFold ==
  (/\ call.fn = "satisfies_conditions"
   /\ \A i \in 1..Len(call.criteria_list) : CallResult(i).exc = "none")
  => call.out = Return(LeftFold(Len(call.criteria_list)))

\* A list true, OR true, AND false was evaluated: left to right it is false,
\* with AND before OR it would be true.
C2_Witness ==
  /\ call.fn = "satisfies_conditions"
  /\ Len(call.criteria_list) = 3
  /\ call.criteria_list[2][4] = "OR"
  /\ call.criteria_list[3][4] = "AND"
  /\ CallResult(1) = Return(TRUE)
  /\ CallResult(2) = Return(TRUE)
  /\ CallResult(3) = Return(FALSE)
  /\ call.out = Return(FALSE)

\* C3: check_criteria never raises, whatever the criterion kind, comparison
\* operator and value.
C3_CheckCriteriaNeverRaises ==
  call.fn = "check_criteria" => call.out.exc = "none"

\* C4: when exactly one task raised, the scan still drains every task and the
\* report lists that one file as failed, counting it neither as a match nor
\* as anything else.
C4_OneFailureReported ==
  (report.printed /\ Cardinality(Raised) = 1) =>
    /\ \A f \in tree : consumed[f] = 1
    /\ Len(report.failed) = 1
    /\ \A f \in Raised : ~InResults(f)

\* C5: a scan that started completes: every submitted task finishes, the
\* drain loop takes each task's outcome exactly once, and the report is
\* printed.
C5_ScanCompletes ==
  (pc = "scan") ~>
    (/\ report.printed
     /\ \A f \in tree : tstate[f] = "finished" /\ consumed[f] = 1
     /\ \A f \in AllPaths \ tree : consumed[f] = 0)

\* A scan of several files came to its report with every task failed.
C5_Witness ==
  /\ report.printed
  /\ Cardinality(tree) >= 2
  /\ Raised = tree
  /\ \A f \in tree : consumed[f] = 1

\* C6: for a file whose extension is not a recognized video extension the
\* metadata fetcher is never invoked and the file is never in the results.
C6_NonVideoNeverFetched ==
  \A f \in NonVideoPaths :
    /\ fetchCount[f] = 0
    /\ tstate[f] # "fetching"
    /\ fetched[f].exc = "not fetched"
    /\ ~InResults(f)

\* A file that is no video was decided and drained under the empty criteria
\* list.
C6_Witness ==
  /\ criteria_list = <<>>
  /\ Drained
  /\ \E f \in NonVideoPaths : f \in tree /\ consumed[f] = 1

\* C7 as stated: a task is submitted only for files with a recognized video
\* extension.
C7_TasksOnlyForVideos ==
  \A f \in AllPaths : tstate[f] # "unsubmitted" => f \in VideoPaths

\* The number of entries of jobs that are f.
JobsOf(f) == Cardinality({i \in 1..Len(jobs) : jobs[i] = f})

\* C7 amended: every enumerated file, whatever its extension, is submitted as
\* one task; a file without a recognized video extension is decided inside
\* its task, which returns None without calling the metadata fetcher.
C7_EveryFileSubmitted ==
  /\ \A f \in tree \ toWalk : JobsOf(f) = 1 /\ tstate[f] # "unsubmitted"
  /\ \A f \in NonVideoPaths :
       /\ tstate[f] \in {"unsubmitted", "queued", "finished"}
       /\ fetchCount[f] = 0
       /\ tstate[f] = "finished" => future[f] = Return(<<>>)

\* A file that is no video went through the pool: submitted, run and finished
\* with None.
C7_Witness ==
  \E f \in NonVideoPaths :
    JobsOf(f) = 1 /\ tstate[f] = "finished" /\ future[f] = Return(<<>>)

\* C8: with threads >= 1, at most `threads` metadata fetches run at once.
C8_FetchesBounded ==
  threads >= 1 => Cardinality(Fetching) <= threads

\* Every worker is inside a fetch while a submitted task still waits.
C8_Witness ==
  /\ threads >= 1
  /\ Cardinality(Fetching) = threads
  /\ workQueue # <<>>
  /\ is_video(Head(workQueue))

\* C9: the fetcher is invoked at most once per file, each path is one task,
\* and a fetch that returned unusable metadata ends the file's task: no
\* second fetch, and the file is not in the results.
C9_OneFetchPerFile ==
  \A f \in AllPaths :
    /\ fetchCount[f] <= 1
    /\ JobsOf(f) <= 1
    /\ (fetched[f].exc = "none" /\ fetched[f].ret = <<>>) =>
         /\ tstate[f] = "finished"
         /\ fetchCount[f] = 1
         /\ ~InResults(f)

\* A file whose fetch returned None was drained.
C9_Witness ==
  \E f \in tree :
    /\ fetched[f].exc = "none"
    /\ fetched[f].ret = <<>>
    /\ consumed[f] = 1

\* C10: when the search path is no directory or the thread count is zero or
\* negative, the run ends in an error before the walk: no file is enumerated,
\* no task is submitted and the fetcher is never invoked.
C10_ConfigErrorBeforeScan ==
  (~search_is_dir \/ threads <= 0) =>
    /\ pc \in {"start", "pool", "exit_not_dir", "uncaught_ValueError"}
    /\ toWalk = tree
    /\ jobs = <<>>
    /\ \A f \in AllPaths : tstate[f] = "unsubmitted" /\ fetchCount[f] = 0

\* The executor refused a thread count of zero or less for a tree with files.
C10_Witness ==
  /\ pc = "uncaught_ValueError"
  /\ threads <= 0
  /\ search_is_dir
  /\ tree # {}

\* A stream of type "video".
IsVideoStream(stream) == stream.codec_type = "video"

\* The metadata with, of its streams, only the first of type "video" kept.
FirstVideoOnly(metadata) ==
  [metadata EXCEPT !.streams = <<SelectSeq(metadata.streams, IsVideoStream)[1]>>]

\* C11: a criterion of a kind that reads the video stream is false, and does
\* not raise, when the metadata holds no stream of type "video", whatever the
\* operator and the value; when it holds several, the result is the one the
\* first video stream alone gives.
C11_StreamCriteriaReadFirstVideo ==
  (call.fn = "check_criteria" /\ call.criteria_list[1][1] \in StreamKinds) =>
    IF SelectSeq(call.metadata.streams, IsVideoStream) = <<>>
    THEN call.out = Return(FALSE)
    ELSE call.out = check_criteria(FirstVideoOnly(call.metadata), call.filepath,
                                   call.criteria_list[1][1],
                                   call.criteria_list[1][2],
                                   call.criteria_list[1][3])

\* A width criterion that the video stream of another file meets was
\* evaluated on a file with an audio stream only, and is false.
C11_Witness ==
  /\ call.fn = "check_criteria"
  /\ call.criteria_list[1][1] = "width"
  /\ call.criteria_list[1][2] = "gte"
  /\ call.criteria_list[1][3] = <<"4", "8", "0">>
  /\ call.metadata.streams # <<>>
  /\ SelectSeq(call.metadata.streams, IsVideoStream) = <<>>
  /\ call.out = Return(FALSE)

NumericKinds == {"duration", "size", "bitrate", "width", "height", "framerate"}

\* The file's value for a numeric kind, as a fraction <<num, den>>, or <<>>
\* when the metadata has none.
FileValue(kind, metadata) ==
  LET video == SelectSeq(metadata.streams, IsVideoStream)
  IN  CASE kind = "duration" -> <<DictGet(metadata.format, "duration", 0), 1>>
        [] kind = "size" -> <<DictGet(metadata.format, "size", 0), 1>>
        [] kind = "bitrate" -> <<DictGet(metadata.format, "bit_rate", 0), 1>>
        [] kind \in {"width", "height"} ->
             IF video # <<>> /\ kind \in DOMAIN video[1]
             THEN <<video[1][kind], 1>> ELSE <<>>
        [] kind = "framerate" ->
             IF video # <<>>
             THEN FrameRate(DictGet(video[1], "r_frame_rate", <<"0", "/", "1">>))
             ELSE <<>>

\* The target a well-formed value names for a numeric kind, as <<target>>, or
\* <<>> when the value is malformed.
TargetOf(kind, value) ==
  LET size == parse_size_arg(value)
      seconds == parse_duration_arg(value)
      head == Split(value, ":")[1]
  IN  CASE kind = "duration" ->
             IF seconds.exc = "none" THEN <<seconds.ret>> ELSE <<>>
        [] kind = "size" ->
             IF size.exc = "none"
             THEN <<size.ret.value * SIZE_UNITS[size.ret.unit]>> ELSE <<>>
        [] kind = "bitrate" ->
             IF size.exc # "none" THEN <<>>
             ELSE IF size.ret.unit = <<"m", "b">> THEN <<size.ret.value * 1000>>
             ELSE IF size.ret.unit = <<"g", "b">> THEN <<size.ret.value * 1000000>>
             ELSE <<size.ret.value>>
        [] OTHER -> IF IsNumeric(head) THEN <<ToNumber(head)>> ELSE <<>>

\* 100 * d <= m, without leaving the range of the model's integers.
WithinHundredth(d, m) == d <= m \div 50 /\ 100 * d <= m

\* The last call is check_criteria on a numeric criterion whose target and
\* whose file value both exist.
NumericCall ==
  /\ call.fn = "check_criteria"
  /\ call.criteria_list[1][1] \in NumericKinds
  /\ call.criteria_list[1][2] \in CompOps
  /\ FileValue(call.criteria_list[1][1], call.metadata) # <<>>
  /\ TargetOf(call.criteria_list[1][1], call.criteria_list[1][3]) # <<>>

\* The file value and the target of the last call, brought to the
\* denominator of the file value.
CallValue == FileValue(call.criteria_list[1][1], call.metadata)[1]

CallTarget ==
  TargetOf(call.criteria_list[1][1], call.criteria_list[1][3])[1]
    * FileValue(call.criteria_list[1][1], call.metadata)[2]

\* The exact comparison gt, gte, lt or lte of the last call.
ExactComparison ==
  CASE call.criteria_list[1][2] = "gt" -> CallValue > CallTarget
    [] call.criteria_list[1][2] = "gte" -> CallValue >= CallTarget
    [] call.criteria_list[1][2] = "lt" -> CallValue < CallTarget
    [] call.criteria_list[1][2] = "lte" -> CallValue <= CallTarget

\* C12 as stated: on a numeric criterion, eq is true exactly when the file's
\* value deviates from the target by at most 1% of the target, and gt, gte,
\* lt and lte are exact.
C12_EqWithinOnePercentOfTarget ==
  NumericCall =>
    call.out =
      Return(IF call.criteria_list[1][2] = "eq"
             THEN WithinHundredth(Abs(CallValue - CallTarget), Abs(CallTarget))
             ELSE ExactComparison)

\* C12 amended: eq is true exactly when the file's value and the target
\* differ by at most 1% of the larger of the two in magnitude; gt, gte, lt
\* and lte are exact; a value exactly 1.5% above the target fails eq and
\* passes gte.
C12_EqWithinOnePercentOfLarger ==
  NumericCall =>
    /\ call.out =
         Return(IF call.criteria_list[1][2] = "eq"
                THEN WithinHundredth(Abs(CallValue - CallTarget),
                                     Max(Abs(CallValue), Abs(CallTarget)))
                ELSE ExactComparison)
    /\ (CallTarget > 0 /\ CallTarget < 1000000 /\ Abs(CallValue) < 1000000
          /\ 1000 * CallValue = 1015 * CallTarget) =>
         /\ call.criteria_list[1][2] = "eq" => call.out = Return(FALSE)
         /\ call.criteria_list[1][2] = "gte" => call.out = Return(TRUE)

\* eq was evaluated on a size exactly 1.5% above the target and is false.
C12_Witness ==
  /\ NumericCall
  /\ call.criteria_list[1][1] = "size"
  /\ call.criteria_list[1][2] = "eq"
  /\ CallTarget = 200
  /\ CallValue = 203
  /\ call.out = Return(FALSE)

\* The task of f finished with a result that the drain loop counts.
Publishes(f) == future[f].exc = "none" /\ Truthy(future[f].ret)

\* C13: results and match_count change only in a turn of the drain loop of
\* main, never in a step of a worker task; each finished task is drained in
\* one turn, which counts and appends its result in that one step when the
\* result is truthy and writes nothing otherwise; and no update is lost: the
\* counter and the list always hold exactly the drained truthy results.
C13_AggregateWrittenByDrainOnly ==
  /\ [](/\ match_count = Len(results)
        /\ match_count = Cardinality({f \in AllPaths : consumed[f] = 1 /\ Publishes(f)})
        /\ \A f \in AllPaths : consumed[f] <= 1)
  /\ [][/\ (results' # results \/ match_count' # match_count) =>
             /\ pc = "scan"
             /\ \E f \in AllPaths : consumed' = [consumed EXCEPT ![f] = @ + 1]
             /\ UNCHANGED <<tstate, future, fetched, fetchCount, workQueue>>
        /\ (tstate' # tstate \/ future' # future \/ fetched' # fetched) =>
             UNCHANGED <<results, match_count, consumed, yielded>>
        /\ \A f \in AllPaths :
             consumed'[f] # consumed[f] =>
               /\ tstate[f] = "finished"
               /\ consumed'[f] = consumed[f] + 1
               /\ match_count' = match_count + (IF Publishes(f) THEN 1 ELSE 0)
               /\ results' = IF Publishes(f)
                             THEN Append(results, future[f].ret[1])
                             ELSE results]_vars

\* One finished task has been drained while another task is still fetching.
C13_Witness ==
  /\ pc = "scan"
  /\ \E f \in AllPaths : consumed[f] = 1 /\ fetchCount[f] = 1
  /\ Fetching # {}
  /\ match_count = Len(results)

====
